---- MODULE Spec2Model ----
(***************************************************************************)
(* The "books" table declared by the Book class of one/model/book.py, and  *)
(* the persistence operations that the declarative mapping opens on it:    *)
(* insert (Book(id=, title=, author=) added to a session), update of one   *)
(* mapped attribute (id, title or author), delete, and retrieval by id.    *)
(* The class declares columns only.  What the persistence layer does with  *)
(* a declaration that leaves a choice open (how an omitted id is           *)
(* generated, what happens to a title longer than the declared length) is  *)
(* a configuration of the backend, fixed for a run and chosen in Init.     *)
(***************************************************************************)
EXTENDS Integers, Sequences, FiniteSets, TLC

\* Ids range over 1..MaxId; the generators stop at MaxId.
MaxId == 2

-----------------------------------------------------------------------------
\* Column values.  A column value is None (SQL NULL) or Some(v).

NULL == <<>>

Some(v) == <<v>>

Val(o) == o[1]

\* Fault: id declared without primary_key=True.
IdPrimaryKeyOmitted == FALSE

\* id = Column(Integer, primary_key=True)
IdPrimaryKey == TRUE

\* Fault: id declared nullable.
IdDeclaredNullable == TRUE

\* A primary key column is NOT NULL.
IdNullable == ~IdPrimaryKey

\* An Integer primary key with no other default is generated when omitted.
IdAutoincrement == IdPrimaryKey

\* title = Column(String(30))
TitleMaxLen == 30

\* Fault: title declared nullable=False.
TitleDeclaredNotNull == FALSE

\* nullable defaults to True and unique to False for a non-key column.
TitleNullable == TRUE

TitleUnique == FALSE

\* Fault: author declared with the length of title.
AuthorDeclaredCapped == TRUE

\* author = Column(String): no length, nullable, not unique.
AuthorHasMaxLen == FALSE

AuthorNullable == TRUE

AuthorUnique == FALSE

-----------------------------------------------------------------------------
\* The inputs callers write.

Rep(c, n) == [i \in 1..n |-> c]

\* Titles: absent, empty, exactly TitleMaxLen characters, one character more.
EmptyTitle == Some(<<>>)

FullTitle == Some(Rep("a", TitleMaxLen))

LongTitle == Some(Rep("a", TitleMaxLen) \o <<"b">>)

TitleInputs == { NULL, EmptyTitle, FullTitle, LongTitle }

\* Authors: absent, and one longer than the title cap.
LongAuthor == Some(Rep("c", TitleMaxLen + 1))

AuthorInputs == { NULL, LongAuthor }

IdRange == { Some(i) : i \in 1..MaxId }

IdInputs == {NULL} \cup IdRange

\* The backends: how an omitted id is generated ("rowid": one more than the
\* largest stored id, as SQLite does for an INTEGER PRIMARY KEY; "sequence":
\* the next value of a counter, as a SERIAL column does) and what is done
\* with a string longer than the declared length ("store": the length is
\* not enforced, as in SQLite; "reject"; "truncate").
Backends ==
    { [ids |-> "rowid",    overlong |-> "store"],
      [ids |-> "sequence", overlong |-> "reject"],
      [ids |-> "sequence", overlong |-> "truncate"] }

-----------------------------------------------------------------------------
VARIABLES
    backend,    \* the configuration of the persistence layer
    seq,        \* last value of the id sequence ("sequence" backends)
    table,      \* the rows of "books": records [id, title, author]
    assigned,   \* history: every id an insert has given to a record
    last        \* the last call and its outcome

vars == <<backend, seq, table, assigned, last>>

Ids(tbl) == { r.id : r \in tbl }

\* session.get(Book, id): the rows stored under that id.
Get(tbl, id) == { r \in tbl : r.id = id }

Max(S) == CHOOSE m \in S : \A x \in S : x <= m

\* Fault: the cap taken as exclusive.
IsLongFromCap(t) == t # NULL /\ Len(Val(t)) >= TitleMaxLen

IsLong(t) == t # NULL /\ Len(Val(t)) > TitleMaxLen

Truncate(t) == Some(SubSeq(Val(t), 1, TitleMaxLen))

\* Fault: title declared with a default, stored in place of null.
StoreTitleDefaulted(b, t) ==
    IF t = NULL THEN Some(<<>>)
    ELSE IF Len(Val(t)) > TitleMaxLen /\ b.overlong = "truncate"
         THEN Some(SubSeq(Val(t), 1, TitleMaxLen)) ELSE t

\* The value stored for a title written as t: the declaration caps the
\* length, the backend decides what becomes of a longer string.
StoreTitle(b, t) ==
    IF IsLong(t) /\ b.overlong = "truncate" THEN Truncate(t) ELSE t

\* Fault: title declared without its length.
TitleRefusedNoLength(b, t) == ~TitleNullable /\ t = NULL

\* The title is refused: null in a NOT NULL column, or too long for a
\* backend that rejects.
TitleRefused(b, t) ==
    \/ (~TitleNullable /\ t = NULL)
    \/ (IsLong(t) /\ b.overlong = "reject")

\* Fault: author declared with a default, stored in place of null.
StoreAuthorDefaulted(b, a) == IF a = NULL THEN Some(<<>>) ELSE a

\* author has no declared length: stored as written.
StoreAuthor(b, a) ==
    IF AuthorHasMaxLen /\ a # NULL /\ Len(Val(a)) > TitleMaxLen
       /\ b.overlong = "truncate"
    THEN Some(SubSeq(Val(a), 1, TitleMaxLen))
    ELSE a

AuthorRefused(b, a) ==
    \/ (~AuthorNullable /\ a = NULL)
    \/ (AuthorHasMaxLen /\ a # NULL /\ Len(Val(a)) > TitleMaxLen
        /\ b.overlong = "reject")

\* Fault: the key is not enforced.
KeyNeverTaken(tbl, id) == FALSE

\* The primary key refuses an id already stored in tbl.
KeyTaken(tbl, id) == IdPrimaryKey /\ id \in Ids(tbl)

\* A unique column would refuse a value already stored.
UniqueRefused(tbl, t, a) ==
    \/ (TitleUnique /\ t # NULL /\ \E r \in tbl : r.title = t)
    \/ (AuthorUnique /\ a # NULL /\ \E r \in tbl : r.author = a)

\* The id generated for a row inserted without one.
NextId(b, s, tbl) ==
    IF b.ids = "rowid"
    THEN LET used == { Val(r.id) : r \in { x \in tbl : x.id # NULL } }
         IN  IF used = {} THEN 1 ELSE Max(used) + 1
    ELSE s + 1

\* A call as its caller sees it: the operation, the id it addressed (for an
\* insert, the id given or generated), the values written, the outcome.
Call(op, id, newId, t, a, out) ==
    [op |-> op, id |-> id, newId |-> newId, title |-> t, author |-> a,
     outcome |-> out]

-----------------------------------------------------------------------------
Init ==
    /\ backend \in Backends
    /\ seq = 0
    /\ table = {}
    /\ assigned = {}
    /\ last = Call("none", NULL, NULL, NULL, NULL, "ok")

\* session.add(Book(id=reqId, title=t, author=a)); commit.
Insert(reqId, t, a) ==
    LET auto == reqId = NULL /\ IdAutoincrement
        id   == IF auto THEN Some(NextId(backend, seq, table)) ELSE reqId
        bad  == \/ (id = NULL /\ ~IdNullable)
                \/ KeyTaken(table, id)
                \/ TitleRefused(backend, t)
                \/ AuthorRefused(backend, a)
                \/ UniqueRefused(table, t, a)
        row  == [id |-> id, title |-> StoreTitle(backend, t),
                 author |-> StoreAuthor(backend, a)]
    IN  /\ id \in IdInputs
        /\ table' = IF bad THEN table ELSE table \cup {row}
        /\ seq' = IF auto /\ backend.ids = "sequence" THEN seq + 1 ELSE seq
        /\ assigned' = IF bad THEN assigned ELSE assigned \cup {id}
        /\ last' = Call("insert", id, NULL, t, a, IF bad THEN "rejected" ELSE "ok")
        /\ UNCHANGED backend

\* UPDATE books SET <column> = v WHERE id = :id, on the rows of tbl.
SetTitle(tbl, id, v) ==
    { IF r.id = id THEN [r EXCEPT !.title = v] ELSE r : r \in tbl }

SetAuthor(tbl, id, v) ==
    { IF r.id = id THEN [r EXCEPT !.author = v] ELSE r : r \in tbl }

SetId(tbl, id, v) ==
    { IF r.id = id THEN [r EXCEPT !.id = v] ELSE r : r \in tbl }

\* book.title = t; commit.
UpdateTitle(id, t) ==
    LET out == IF Get(table, id) = {} THEN "nomatch"
               ELSE IF TitleRefused(backend, t)
                       \/ UniqueRefused(table \ Get(table, id), t, NULL)
                    THEN "rejected" ELSE "ok"
    IN  /\ table' = IF out = "ok"
                  THEN SetTitle(table, id, StoreTitle(backend, t)) ELSE table
        /\ last' = Call("update_title", id, NULL, t, NULL, out)
        /\ UNCHANGED <<backend, seq, assigned>>

\* book.author = a; commit.
UpdateAuthor(id, a) ==
    LET out == IF Get(table, id) = {} THEN "nomatch"
               ELSE IF AuthorRefused(backend, a)
                       \/ UniqueRefused(table \ Get(table, id), NULL, a)
                    THEN "rejected" ELSE "ok"
    IN  /\ table' = IF out = "ok"
                  THEN SetAuthor(table, id, StoreAuthor(backend, a)) ELSE table
        /\ last' = Call("update_author", id, NULL, NULL, a, out)
        /\ UNCHANGED <<backend, seq, assigned>>

\* book.id = newId; commit.  The mapped id attribute is assignable like the
\* others; the primary key refuses NULL and an id another row holds.
UpdateId(id, newId) ==
    LET out == IF Get(table, id) = {} THEN "nomatch"
               ELSE IF (newId = NULL /\ ~IdNullable)
                       \/ KeyTaken(table \ Get(table, id), newId)
                    THEN "rejected" ELSE "ok"
    IN  /\ table' = IF out = "ok" THEN SetId(table, id, newId) ELSE table
        /\ last' = Call("update_id", id, newId, NULL, NULL, out)
        /\ UNCHANGED <<backend, seq, assigned>>

\* Fault: a delete cascades to the rows that share the author of the row.
DeleteRowsCascade(tbl, id) ==
    { r \in tbl : \A d \in tbl : d.id = id => r.author # d.author }

\* The rows left by a delete of the row stored under id.
DeleteRows(tbl, id) == tbl \ Get(tbl, id)

\* session.delete(book); commit.
Delete(id) ==
    LET out == IF Get(table, id) = {} THEN "nomatch" ELSE "ok"
    IN  /\ table' = DeleteRows(table, id)
        /\ last' = Call("delete", id, NULL, NULL, NULL, out)
        /\ UNCHANGED <<backend, seq, assigned>>

\* One call, with the ids an insert may name drawn from I, titles from T and
\* authors from A.
NextOn(I, T, A) ==
    \/ \E i \in I, t \in T, a \in A : Insert(i, t, a)
    \/ \E i \in IdRange, t \in T : UpdateTitle(i, t)
    \/ \E i \in IdRange, a \in A : UpdateAuthor(i, a)
    \/ \E i \in IdRange, n \in IdInputs : UpdateId(i, n)
    \/ \E i \in IdRange : Delete(i)

\* Callers leave the id of a new record to the storage layer and write
\* every title and author.
Next == NextOn({NULL}, TitleInputs, AuthorInputs)

Spec == Init /\ [][Next]_vars

\* Callers may also name the id of a new record; fewer values are written.
NextIds == NextOn(IdInputs, {NULL, LongTitle}, {NULL})

SpecIds == Init /\ [][NextIds]_vars

TypeOK ==
    /\ backend \in Backends
    /\ seq \in 0..MaxId
    /\ assigned \subseteq IdRange
    /\ Ids(table) \subseteq IdRange
    /\ \A r \in table : r.title \in TitleInputs /\ r.author \in AuthorInputs
    /\ last.op \in {"none", "insert", "update_title", "update_author",
                    "update_id", "delete"}
    /\ last.outcome \in {"ok", "rejected", "nomatch"}

-----------------------------------------------------------------------------
\* Vocabulary of the properties.  Lengths are measured here directly, not
\* through the operators of the model.

Wrote(c, ops) == c.op \in ops /\ c.outcome = "ok"

Over(t) == t # NULL /\ Len(Val(t)) > TitleMaxLen

Within(t) == t # NULL /\ Len(Val(t)) <= TitleMaxLen

Cut(t) == Some([i \in 1..TitleMaxLen |-> Val(t)[i]])

\* s is what a read may return for a title written as t.
StoredAs(t, s) == s = t \/ (Over(t) /\ s = Cut(t))

UniqueIds == \A r1 \in table, r2 \in table : r1.id = r2.id => r1 = r2

\* Every row stored under another id than the one the step addressed, and
\* every row when the step was refused, is still stored, unchanged.
OthersKept ==
    \A r \in table : (last'.id # r.id \/ last'.outcome # "ok") => r \in table'

-----------------------------------------------------------------------------
\* C1 (as claimed): the id an insert gives to a record is distinct from
\* every id an earlier insert has given, the ids of deleted records included.
C1_IdNeverReused ==
    [][Wrote(last', {"insert"}) => last'.id \notin assigned]_vars

\* C1 (amended): the id an insert gives to a record is a non-null id that no
\* record stored at the time of the insert holds, and the record is stored
\* under it.
C1_IdFreshAmongStored ==
    [][Wrote(last', {"insert"}) =>
          /\ last'.id \in IdRange
          /\ last'.id \notin Ids(table)
          /\ last'.id \in Ids(table')]_vars

\* An insert succeeded after a record with an assigned id was deleted.
C1_Witness ==
    /\ Wrote(last, {"insert"})
    /\ assigned \ Ids(table) # {}

\* C2 (as claimed): stored ids are pairwise distinct and no update changes
\* the id of a stored record.
C2_IdUniqueImmutable ==
    /\ []UniqueIds
    /\ [][last'.op \in {"update_title", "update_author", "update_id"} =>
             Ids(table') = Ids(table)]_vars

\* C2 (amended): stored ids are pairwise distinct in every reachable state;
\* an update of title or author changes no id; an update of the id itself
\* is accepted only for a non-null id that no other record holds, and then
\* moves exactly that record to the new id.
C2_IdUniqueStable ==
    /\ []UniqueIds
    /\ [][last'.op \in {"update_title", "update_author"} =>
             Ids(table') = Ids(table)]_vars
    /\ [][Wrote(last', {"update_id"}) =>
             /\ last'.newId \in IdRange
             /\ last'.newId \notin Ids(table) \ {last'.id}
             /\ Ids(table') = (Ids(table) \ {last'.id}) \cup {last'.newId}]_vars

\* A caller has just moved a stored record to another id.
C2_Witness ==
    /\ Wrote(last, {"update_id"})
    /\ last.newId # last.id
    /\ Get(table, last.newId) # {}

\* C3: a title of at most TitleMaxLen characters (the empty one and one of
\* exactly TitleMaxLen included) written by an insert or an update is never
\* refused for its length, and the read that follows returns it unchanged.
C3_TitleRoundTrip ==
    (last.op \in {"insert", "update_title"} /\ Within(last.title)) =>
        /\ last.outcome = "rejected" =>
               last.op = "insert" /\ last.id \in Ids(table)
        /\ last.outcome = "ok" =>
               /\ Get(table, last.id) # {}
               /\ \A r \in Get(table, last.id) : r.title = last.title

\* A title of exactly TitleMaxLen characters was written by an update on a
\* backend that enforces the length.
C3_Witness ==
    /\ Wrote(last, {"update_title"})
    /\ last.title # NULL
    /\ Len(Val(last.title)) = TitleMaxLen
    /\ backend.overlong = "reject"

\* C4: an author of any length written by an insert or an update is never
\* refused for its length, and the read that follows returns it unchanged.
C4_AuthorRoundTrip ==
    (last.op \in {"insert", "update_author"} /\ last.author # NULL) =>
        /\ last.outcome = "rejected" =>
               /\ last.op = "insert"
               /\ last.id \in Ids(table) \/ Over(last.title)
        /\ last.outcome = "ok" =>
               /\ Get(table, last.id) # {}
               /\ \A r \in Get(table, last.id) : r.author = last.author

\* An author longer than the title cap was written on a backend that
\* enforces declared lengths.
C4_Witness ==
    /\ Wrote(last, {"insert", "update_author"})
    /\ last.author # NULL
    /\ Len(Val(last.author)) > TitleMaxLen
    /\ backend.overlong # "store"

\* C5 (as claimed): no stored record holds a title longer than TitleMaxLen.
C5_NoLongTitleStored ==
    \A r \in table : r.title = NULL \/ Len(Val(r.title)) <= TitleMaxLen

\* C5 (amended): a write of a title longer than TitleMaxLen is refused and
\* leaves the table unchanged, or stores the title cut to TitleMaxLen
\* characters, or, on a backend that does not enforce the declared length,
\* stores the title as written; only on such a backend does a stored record
\* hold a title longer than TitleMaxLen.
C5_LongTitleOutcome ==
    /\ [](backend.overlong # "store" => C5_NoLongTitleStored)
    /\ []((Wrote(last, {"insert", "update_title"}) /\ Over(last.title)) =>
             \A r \in Get(table, last.id) :
                 /\ StoredAs(last.title, r.title)
                 /\ r.title = last.title => backend.overlong = "store")
    /\ [][last'.outcome = "rejected" => table' = table]_vars

\* A title of more than TitleMaxLen characters was written and is stored
\* cut to TitleMaxLen characters.
C5_Witness ==
    /\ Wrote(last, {"insert", "update_title"})
    /\ Over(last.title)
    /\ \E r \in Get(table, last.id) : r.title = Cut(last.title)

\* C6: no write is refused for a null or an already stored title or author:
\* an insert is refused only for an id that is stored already or for a
\* title too long for the backend, an update of title only for such a
\* title, an update of author never.
C6_NoNullNoUniqueConstraint ==
    /\ (last.op = "insert" /\ last.outcome = "rejected") =>
           \/ last.id \in Ids(table)
           \/ (Over(last.title) /\ backend.overlong = "reject")
    /\ (last.op = "update_title" /\ last.outcome = "rejected") =>
           (Over(last.title) /\ backend.overlong = "reject")
    /\ last.op = "update_author" => last.outcome # "rejected"

\* An insert with no title, and with the author of a stored record that has
\* no title either, succeeded: two records that differ only in id.
C6_Witness ==
    /\ Wrote(last, {"insert"})
    /\ last.title = NULL
    /\ last.author # NULL
    /\ \E r \in table :
          r.id # last.id /\ r.title = last.title /\ r.author = last.author

\* C7 (as claimed): retrieval by the id of an inserted record returns
\* exactly the title and author given, until an update or a delete is
\* applied to that record.
C7_InsertedRetrieved ==
    /\ [](Wrote(last, {"insert"}) =>
             Get(table, last.id) =
                 {[id |-> last.id, title |-> last.title, author |-> last.author]})
    /\ [][OthersKept]_vars

\* C7 (amended): retrieval by the id of an inserted record returns exactly
\* the author given, and the title given when it is absent or at most
\* TitleMaxLen characters long (a longer title may be returned cut to
\* TitleMaxLen characters), until an update or a delete is applied
\* to that record.
C7_InsertedRetrievedCut ==
    /\ [](Wrote(last, {"insert"}) =>
             \E s \in {last.title} \cup (IF Over(last.title)
                                         THEN {Cut(last.title)} ELSE {}) :
                 Get(table, last.id) =
                     {[id |-> last.id, title |-> s, author |-> last.author]})
    /\ [][OthersKept]_vars

\* A record inserted with a title and an author is stored beside another
\* record on which a call has just succeeded.
C7_Witness ==
    /\ Wrote(last, {"update_title", "update_author", "update_id", "delete", "insert"})
    /\ \E r \in table :
          r.id # last.id /\ r.title = FullTitle /\ r.author = LongAuthor

\* C8 (as claimed): a record is stored under an id only if an insert gave
\* that id; after a delete nothing is stored under the id; an update or a
\* delete of an id that is not stored changes no record.
C8_LifecycleByInsert ==
    /\ [](Ids(table) \subseteq assigned)
    /\ [](last.op = "delete" => Get(table, last.id) = {})
    /\ [][last'.outcome = "nomatch" => table' = table]_vars

\* C8 (amended): an id comes to be stored only by an insert or an update of
\* id that gives it to a record, and ceases to be stored only by a delete
\* of it or an update of id away from it; after a delete nothing is stored
\* under the id; an update or a delete finds no record exactly when the id
\* is not stored, and then changes no record.
C8_Lifecycle ==
    /\ [][\A i \in IdRange :
             /\ (i \notin Ids(table) /\ i \in Ids(table')) =>
                   \/ (Wrote(last', {"insert"}) /\ last'.id = i)
                   \/ (Wrote(last', {"update_id"}) /\ last'.newId = i)
             /\ (i \in Ids(table) /\ i \notin Ids(table')) =>
                   Wrote(last', {"delete", "update_id"}) /\ last'.id = i]_vars
    /\ [](last.op = "delete" => Get(table, last.id) = {})
    /\ [][/\ last'.outcome = "nomatch" <=>
                (last'.op # "insert" /\ Get(table, last'.id) = {})
          /\ last'.outcome = "nomatch" => table' = table]_vars

\* A record that an insert had stored has just been deleted, another one
\* is still stored.
C8_Witness ==
    /\ Wrote(last, {"delete"})
    /\ last.id \in assigned
    /\ table # {}

\* C9 (as claimed): a write changes the row it addresses and nothing else,
\* and stores exactly the values written.
C9_ExactWrites ==
    [][/\ Wrote(last', {"insert"}) =>
             table' = table \cup
                 {[id |-> last'.id, title |-> last'.title, author |-> last'.author]}
       /\ Wrote(last', {"update_title"}) =>
             table' = { IF r.id = last'.id
                        THEN [r EXCEPT !.title = last'.title] ELSE r : r \in table }
       /\ Wrote(last', {"update_author"}) =>
             table' = { IF r.id = last'.id
                        THEN [r EXCEPT !.author = last'.author] ELSE r : r \in table }
       /\ Wrote(last', {"delete"}) =>
             table' = { r \in table : r.id # last'.id }
       /\ last'.outcome # "ok" => table' = table]_vars

\* C9 (amended): a write changes the row it addresses and nothing else, and
\* stores exactly the values written, except that a title longer than
\* TitleMaxLen characters may be stored cut to TitleMaxLen characters.
C9_ExactWritesCut ==
    [][/\ Wrote(last', {"insert"}) =>
             \E s \in {last'.title} \cup (IF Over(last'.title)
                                          THEN {Cut(last'.title)} ELSE {}) :
                 table' = table \cup
                     {[id |-> last'.id, title |-> s, author |-> last'.author]}
       /\ Wrote(last', {"update_title"}) =>
             \E s \in {last'.title} \cup (IF Over(last'.title)
                                          THEN {Cut(last'.title)} ELSE {}) :
                 table' = { IF r.id = last'.id
                            THEN [r EXCEPT !.title = s] ELSE r : r \in table }
       /\ Wrote(last', {"update_author"}) =>
             table' = { IF r.id = last'.id
                        THEN [r EXCEPT !.author = last'.author] ELSE r : r \in table }
       /\ Wrote(last', {"delete"}) =>
             table' = { r \in table : r.id # last'.id }
       /\ last'.outcome # "ok" => table' = table]_vars

\* The title of one of two stored records has just been set to null while
\* the other record has the same author.
C9_Witness ==
    /\ Wrote(last, {"update_title"})
    /\ last.title = NULL
    /\ \E r1 \in table, r2 \in table :
          r1.id = last.id /\ r2.id # last.id /\ r1.author = r2.author

\* C10: every stored record has a non-null integer id, whatever its title
\* and author.
C10_StoredIdNotNull ==
    \A r \in table : r.id # NULL /\ Val(r.id) \in 1..MaxId

\* A caller has tried to set the id of a record without title and author
\* to null.
C10_Witness ==
    /\ last.op = "update_id"
    /\ last.newId = NULL
    /\ last.outcome = "rejected"
    /\ \E r \in table : r.id = last.id /\ r.title = NULL /\ r.author = NULL

====
